---- MODULE Spec2Model ----
(***************************************************************************)
(* State-machine model of the multi-source retrieval pipeline of the       *)
(* research assistant: SearchTool's four adapters (google_search,          *)
(* arxiv_search, clinicaltrials_search_beta_api,                            *)
(* clinicaltrials_search_scrape), the report Agent, and                    *)
(* MultiAgentSystem.run_literature_review.                                 *)
(*                                                                         *)
(* Text whose length or content the code inspects is a sequence of         *)
(* one-character strings; opaque text (labels, dates) is a TLA+ string;    *)
(* a title is a pair <<source tag, index>>, the empty title is <<>>.       *)
(* Time is counted in milliseconds of time.sleep.                          *)
(***************************************************************************)
EXTENDS Integers, Sequences, FiniteSets, TLC

\* ------------------------------------------------------------------ bounds

\* The largest number of items (search items, papers, studies, result
\* links) one remote response carries.
MaxItems == 2

\* The largest max_results / num_results a caller passes.
MaxN == 2

\* ------------------------------------------------------- program constants

\* time.sleep(1) in google_search.
GoogleDelay == 1000
\* time.sleep(0.5) in arxiv_search.
ArxivDelay == 500
\* time.sleep(2) in both registry adapters.
RegistryDelay == 2000
\* summary[:200] in both registry adapters.
SnippetLen == 200
\* num_results / max_results default of every adapter, used by the review.
DefaultN == 2

\* ------------------------------------------------------------------- text

\* Python's None where a string is expected, and where a list is.
None == "None"
NoneList == <<None>>

\* `not xs` for a list that may be None.
Falsy(xs) == xs = NoneList \/ xs = <<>>

\* n copies of the character c.
Rep(c, k) == [i \in 1..k |-> c]

Ellipsis == <<".", ".", ".">>

\* s[:k]
Prefix(s, k) == SubSeq(s, 1, IF Len(s) < k THEN Len(s) ELSE k)

\* s.startswith(p)
StartsWith(s, p) == Len(s) >= Len(p) /\ SubSeq(s, 1, Len(p)) = p

\* summary[:200] + "..." if len(summary) > 200 else summary
Snippet(summary) ==
  IF Len(summary) > SnippetLen THEN Prefix(summary, SnippetLen) \o Ellipsis
  ELSE summary

\* The n first elements of a list: list[:n].
Take(s, k) == SubSeq(s, 1, IF Len(s) < k THEN Len(s) ELSE k)

\* All sequences over S of length 0..k.
SeqUpTo(S, k) == UNION {[1..m -> S] : m \in 0..k}

\* max_chars default of google_search.
MaxChars == 500

\* ----------------------------------------------------------- SearchResult

\* A title is a pair <<source tag, index>>, the empty title is <<>>.
\* The dataclass with its defaults; title is the one required field.  The
\* last four fields are history kept for the analysis: the summary the
\* snippet was cut from, the fields as they were before the detail
\* enrichment of clinicaltrials_search_beta_api, and the candidate
\* elements of the detail page a Tier-2 record was extracted from.
SearchResult(title) ==
  [title |-> title, link |-> "", snippet |-> <<>>, body |-> <<>>,
   authors |-> NoneList, published |-> "", abstract |-> <<>>, pdf_url |-> "",
   arxiv_url |-> "", nct_id |-> <<>>, status |-> "", study_type |-> "",
   conditions |-> NoneList, interventions |-> NoneList, phase |-> "",
   src_summary |-> <<>>, enriched |-> FALSE,
   pre |-> [abstract |-> <<>>, conditions |-> NoneList, interventions |-> NoneList],
   cands |-> <<>>]

\* ------------------------------------------------------------------ state

VARIABLES
  api_key,            \* SearchTool.api_key: None, "" or a key
  search_engine_id,   \* SearchTool.search_engine_id
  chat,               \* report_agent.chat: "session" or None
  pc,                 \* position of the caller (driver / run_literature_review)
  ad,                 \* the adapter called last: "none", "google", ...
  apc,                \* its position: "idle", "entry", "loop", "ret"
  n,                  \* its num_results / max_results argument
  queue,              \* the remote items its loop has still to visit
  results,            \* its local result list
  ret,                \* what it handed to its caller
  failed,             \* a failure reached the adapter's own handler
  rl,                 \* outbound calls and sleeps of the current fetch
  stageLog,           \* the stages run_literature_review has started
  tier1,              \* what Tier 1 returned to run_literature_review
  tier2Calls,         \* calls of clinicaltrials_search_scrape by the review
  handed,             \* per stage, the titles of the records it handed over
  overlap,            \* a stage was started before the adapter call of the
                      \* previous one had returned
  google_context, arxiv_context, clinical_trials_context,
  processCalls,       \* calls of report_agent.process
  prompt,             \* the report_prompt submitted
  composerOut,        \* the text process returned
  report              \* the value run_literature_review returned

vars == <<api_key, search_engine_id, chat, pc, ad, apc, n, queue, results,
          ret, failed, rl, stageLog, tier1, tier2Calls, handed, overlap,
          google_context, arxiv_context, clinical_trials_context, processCalls, prompt,
          composerOut, report>>

envVars == <<api_key, search_engine_id, chat>>
reviewVars == <<stageLog, tier1, tier2Calls, handed, overlap, google_context,
                arxiv_context,
                clinical_trials_context, processCalls, prompt, composerOut, report>>

\* os.getenv gives None or a string, which may be empty.
EnvValues == {None, "", "key"}

\* `not value` for a credential.
Missing(value) == value = None \/ value = ""

NoRet == [kind |-> "pending", val |-> <<>>]
ListRet(v) == [kind |-> "list", val |-> v]
Raised == [kind |-> "raised", val |-> <<>>]

\* ------------------------------------------------------------ rate limits

NewFetch == [calls |-> 0, since |-> 0, slept |-> 0, processed |-> 0,
             undelayed |-> FALSE]

\* requests.get (or the arxiv client's request): one outbound call.  It is
\* undelayed when it is not the first of the fetch and less than `delay` of
\* sleep separates it from the previous one.
Outbound(r, delay) ==
  [r EXCEPT !.calls = @ + 1,
            !.undelayed = @ \/ (r.calls >= 1 /\ r.since < delay),
            !.since = 0]

\* time.sleep(d)
Sleep(r, d) == [r EXCEPT !.since = @ + d, !.slept = @ + d]

\* One more remote item handled (an outbound call made for it or a record
\* built from it).
Handled(r) == [r EXCEPT !.processed = @ + 1]

\* ------------------------------------------------------- calling an adapter

Invoke(a, k) ==
  /\ ad' = a
  /\ apc' = "entry"
  /\ n' = k
  /\ queue' = <<>>
  /\ results' = <<>>
  /\ ret' = NoRet
  /\ failed' = FALSE
  /\ rl' = NewFetch

\* The caller has taken the returned list: the frame of the call is gone.
Release ==
  /\ apc' = "idle"
  /\ queue' = <<>>
  /\ results' = <<>>
  /\ ret' = NoRet
  /\ failed' = FALSE
  /\ rl' = NewFetch
  /\ UNCHANGED <<ad, n>>

\* `return v`
Return(v) ==
  /\ ret' = v
  /\ apc' = "ret"
  /\ queue' = <<>>
  /\ UNCHANGED <<ad, n, results>>

\* ---------------------------------------------------------- google_search

\* What the Custom Search request can come to: an exception of
\* requests.get, a status other than 200, a body response.json() cannot
\* parse, or an "items" list of any length, each item with or without its
\* "title", "link" and "snippet" keys.
GoogleItemShapes == {"ok", "no_link", "no_title", "no_snippet"}
GoogleResponses ==
  {[kind |-> k, items |-> <<>>] : k \in {"exception", "status", "badjson"}}
  \cup {[kind |-> "ok", items |-> it] : it \in SeqUpTo(GoogleItemShapes, MaxItems)}

\* _get_page_content: the page text cut to max_chars, "" on any exception.
PageTexts == {Rep("p", 3)}
PageOutcomes == {[ok |-> FALSE, text |-> <<>>]}
                \cup {[ok |-> TRUE, text |-> t] : t \in PageTexts}
GetPageContent(page, max_chars) ==
  IF page.ok THEN Prefix(page.text, max_chars) ELSE <<>>

\* `except Exception: return []` of google_search.
GoogleExcept == ListRet(<<>>)

\* The guard written with `and`: it stops only when both are absent.
CredentialsMissing_Both == Missing(api_key) /\ Missing(search_engine_id)

\* The credential guard at the head of google_search.
CredentialsMissing == Missing(api_key) \/ Missing(search_engine_id)

\* Lines 47-67: the credential guard and the search request.
GoogleEntry ==
  /\ ad = "google" /\ apc = "entry"
  /\ \/ /\ CredentialsMissing
        /\ Return(ListRet(<<>>))
        /\ UNCHANGED <<rl, failed>>
     \/ /\ ~CredentialsMissing
        /\ \E resp \in GoogleResponses :
             /\ rl' = Outbound(rl, GoogleDelay)
             /\ \/ /\ resp.kind \in {"exception", "badjson"}
                   /\ failed' = TRUE
                   /\ Return(GoogleExcept)
                \/ /\ resp.kind = "status"
                   /\ failed' = TRUE
                   /\ Return(ListRet(<<>>))
                \/ /\ resp.kind = "ok"
                   /\ queue' = resp.items
                   /\ apc' = "loop"
                   /\ UNCHANGED <<ad, n, results, ret, failed>>
  /\ UNCHANGED <<envVars, pc, reviewVars>>

\* Lines 70-79: one turn of the loop over the items.
GoogleItem ==
  /\ ad = "google" /\ apc = "loop" /\ queue # <<>>
  /\ LET item == Head(queue)
         idx == Len(results) + 1
     IN \/ /\ item = "no_link"            \* item["link"]: KeyError
           /\ failed' = TRUE
           /\ Return(GoogleExcept)
           /\ UNCHANGED rl
        \/ /\ item \in {"no_title", "no_snippet"}
           /\ \E page \in PageOutcomes :
                rl' = Handled(Outbound(rl, GoogleDelay))
           /\ failed' = TRUE
           /\ Return(GoogleExcept)
        \/ /\ item = "ok"
           /\ \E page \in PageOutcomes :
                /\ results' = Append(results,
                     [SearchResult(<<"web", idx>>) EXCEPT
                        !.link = "link", !.snippet = Rep("g", 2),
                        !.body = GetPageContent(page, MaxChars)])
                /\ rl' = Sleep(Handled(Outbound(rl, GoogleDelay)), GoogleDelay)
           /\ queue' = Tail(queue)
           /\ UNCHANGED <<ad, apc, n, ret, failed>>
  /\ UNCHANGED <<envVars, pc, reviewVars>>

\* Line 81: return enriched_results.
GoogleReturn ==
  /\ ad = "google" /\ apc = "loop" /\ queue = <<>>
  /\ Return(ListRet(results))
  /\ UNCHANGED <<envVars, pc, reviewVars, rl, failed>>

\* ----------------------------------------------------------- arxiv_search

\* client.results(search) yields at most max_results papers (the client
\* cuts the feed to Search.max_results) or raises; reading a paper's
\* attributes (entry_id, published, ...) raises on a malformed entry.
ArxivEntryShapes == {"ok", "malformed"}
ArxivResponses(k) ==
  {[kind |-> "exception", entries |-> <<>>]}
  \cup {[kind |-> "ok", entries |-> e] :
          e \in SeqUpTo(ArxivEntryShapes, IF k < MaxItems THEN k ELSE MaxItems)}

\* `except Exception: return []` of arxiv_search.
ArxivExcept == ListRet(<<>>)

\* Lines 92-100: the search request.
ArxivEntry ==
  /\ ad = "arxiv" /\ apc = "entry"
  /\ \E resp \in ArxivResponses(n) :
       /\ rl' = Outbound(rl, ArxivDelay)
       /\ \/ /\ resp.kind = "exception"
             /\ failed' = TRUE
             /\ Return(ArxivExcept)
          \/ /\ resp.kind = "ok"
             /\ queue' = resp.entries
             /\ apc' = "loop"
             /\ UNCHANGED <<ad, n, results, ret, failed>>
  /\ UNCHANGED <<envVars, pc, reviewVars>>

\* Lines 100-112: one turn of the loop over the papers.
ArxivItem ==
  /\ ad = "arxiv" /\ apc = "loop" /\ queue # <<>>
  /\ LET idx == Len(results) + 1
     IN \/ /\ Head(queue) = "malformed"
           /\ failed' = TRUE
           /\ Return(ArxivExcept)
           /\ UNCHANGED rl
        \/ /\ Head(queue) = "ok"
           /\ results' = Append(results,
                [SearchResult(<<"arxiv", idx>>) EXCEPT
                   !.authors = <<"author">>, !.published = "2024-01-01",
                   !.abstract = Rep("a", 4), !.pdf_url = "pdf",
                   !.arxiv_url = "https://arxiv.org/abs/id"])
           /\ rl' = Sleep(Handled(rl), ArxivDelay)
           /\ queue' = Tail(queue)
           /\ UNCHANGED <<ad, apc, n, ret, failed>>
  /\ UNCHANGED <<envVars, pc, reviewVars>>

\* Line 114: return results.
ArxivReturn ==
  /\ ad = "arxiv" /\ apc = "loop" /\ queue = <<>>
  /\ Return(ListRet(results))
  /\ UNCHANGED <<envVars, pc, reviewVars, rl, failed>>

\* ------------------------------------------ clinicaltrials_search_beta_api

NctPrefix == <<"N", "C", "T">>
\* A well-formed identifier, and one the registry never issues.
Nct1 == NctPrefix \o <<"0", "1", "2", "3", "4", "5", "6", "7">>
OddId == <<"X", "1">>

\* f"https://clinicaltrials.gov/ct2/show/{nct_id}"
StudyUrlPrefix == <<"h", "t", "t", "p", "s", ":", "/", "/", "c", "l", "i", "n", "i", "c", "a", "l", "t", "r", "i", "a", "l", "s", ".", "g", "o", "v", "/", "c", "t", "2", "/", "s", "h", "o", "w", "/">>
StudyUrl(nct_id) == StudyUrlPrefix \o nct_id

\* ", ".join(xs)
RECURSIVE JoinComma(_)
JoinComma(xs) ==
  IF xs = <<>> THEN ""
  ELSE IF Len(xs) = 1 THEN xs[1]
  ELSE xs[1] \o ", " \o JoinComma(Tail(xs))

\* One study of the "studies" list.  wellformed is FALSE when a module is
\* not an object, so that its .get raises; hasBrief / hasOfficial say
\* whether briefTitle / officialTitle are there (non-empty).
BaseStudy ==
  [wellformed |-> TRUE, nctId |-> Nct1, hasBrief |-> TRUE, hasOfficial |-> TRUE,
   briefSummary |-> Rep("s", 5), detailedDescription |-> Rep("d", 4),
   conditions |-> <<"c1">>, phases |-> <<"PHASE1", "PHASE2">>,
   overallStatus |-> "RECRUITING", studyType |-> "INTERVENTIONAL"]

\* The studies the remote may send: the base study with one module varied
\* at a time, and the studies without any summary (the enrichment case).
NoSummary == [BaseStudy EXCEPT !.briefSummary = <<>>, !.detailedDescription = <<>>]
StudyPayloads ==
  { BaseStudy,
    [BaseStudy EXCEPT !.wellformed = FALSE],
    [BaseStudy EXCEPT !.nctId = <<>>],
    [BaseStudy EXCEPT !.hasBrief = FALSE],
    [BaseStudy EXCEPT !.hasBrief = FALSE, !.hasOfficial = FALSE],
    [BaseStudy EXCEPT !.briefSummary = <<>>],
    [BaseStudy EXCEPT !.briefSummary = Rep("s", SnippetLen)],
    [BaseStudy EXCEPT !.briefSummary = Rep("s", SnippetLen + 1)],
    [BaseStudy EXCEPT !.phases = <<>>],
    NoSummary,
    [NoSummary EXCEPT !.conditions = <<>>],
    [NoSummary EXCEPT !.nctId = OddId] }

BetaResponses ==
  {[kind |-> k, studies |-> <<>>] : k \in {"exception", "status", "badjson"}}
  \cup {[kind |-> "ok", studies |-> st] : st \in SeqUpTo(StudyPayloads, MaxItems)}

\* What the single-study endpoint can come to.
DetailPayloads ==
  { [briefSummary |-> Rep("e", 5), detailedDescription |-> <<>>,
     conditions |-> <<"c1">>, interventions |-> <<"i1">>],
    [briefSummary |-> <<>>, detailedDescription |-> <<>>,
     conditions |-> <<>>, interventions |-> <<>>] }
DetailResponses ==
  {[kind |-> k, study |-> CHOOSE d \in DetailPayloads : TRUE] :
     k \in {"exception", "status"}}
  \cup {[kind |-> "ok", study |-> d] : d \in DetailPayloads}

\* _get_clinical_trial_details_api, lines 224-226: no request for an
\* identifier that is empty or does not start with "NCT".
DetailIdValid(nct_id) == nct_id # <<>> /\ StartsWith(nct_id, NctPrefix)

\* _get_clinical_trial_details_api, lines 233-280: None on an exception or a
\* status other than 200, else the SearchResult of the study.
DetailRecord(nct_id, resp) ==
  IF resp.kind # "ok" THEN None
  ELSE [SearchResult(<<"detail", 0>>) EXCEPT
          !.link = StudyUrl(nct_id), !.nct_id = nct_id,
          !.abstract = IF resp.study.briefSummary # <<>>
                       THEN resp.study.briefSummary
                       ELSE resp.study.detailedDescription,
          !.conditions = resp.study.conditions,
          !.interventions = resp.study.interventions]

\* Lines 155-200: the record built from one study.
StudyRecord(study, idx) ==
  LET title == IF study.hasBrief THEN <<"brief", idx>>
               ELSE IF study.hasOfficial THEN <<"official", idx>> ELSE <<>>
      abstract == IF study.briefSummary # <<>> THEN study.briefSummary
                  ELSE study.detailedDescription
  IN [SearchResult(title) EXCEPT
        !.link = StudyUrl(study.nctId),
        !.snippet = Snippet(study.briefSummary),
        !.abstract = abstract,
        !.nct_id = study.nctId,
        !.status = study.overallStatus,
        !.study_type = study.studyType,
        !.phase = IF study.phases # <<>> THEN JoinComma(study.phases)
                  ELSE "Not Specified",
        !.conditions = study.conditions,
        !.src_summary = study.briefSummary,
        !.pre = [abstract |-> abstract, conditions |-> study.conditions,
                 interventions |-> NoneList]]

\* Lines 206-209: the detail study's fields written into the record.
Enrich(rec, detail) ==
  [rec EXCEPT !.abstract = detail.abstract,
              !.conditions = detail.conditions,
              !.interventions = detail.interventions,
              !.enriched = TRUE]

\* The exception of the Tier-1 fetch left to the caller.
BetaExcept_Propagate == Raised

\* `except Exception: return []` of clinicaltrials_search_beta_api.
BetaExcept == ListRet(<<>>)

\* Lines 127-150: the list request.
BetaEntry ==
  /\ ad = "beta" /\ apc = "entry"
  /\ \E resp \in BetaResponses :
       /\ rl' = Outbound(rl, RegistryDelay)
       /\ \/ /\ resp.kind \in {"exception", "badjson"}
             /\ failed' = TRUE
             /\ Return(BetaExcept)
          \/ /\ resp.kind = "status"
             /\ failed' = TRUE
             /\ Return(ListRet(<<>>))
          \/ /\ resp.kind = "ok" /\ resp.studies = <<>>
             /\ Return(ListRet(<<>>))
             /\ UNCHANGED failed
          \/ /\ resp.kind = "ok" /\ resp.studies # <<>>
             /\ queue' = resp.studies
             /\ apc' = "loop"
             /\ UNCHANGED <<ad, n, results, ret, failed>>
  /\ UNCHANGED <<envVars, pc, reviewVars>>

\* Lines 153-211: one turn of the loop over the studies.
BetaItem ==
  /\ ad = "beta" /\ apc = "loop" /\ queue # <<>>
  /\ LET study == Head(queue)
         rec == StudyRecord(study, Len(results) + 1)
         needsDetail == study.briefSummary = <<>>
                        /\ study.detailedDescription = <<>>
     IN \/ /\ ~study.wellformed            \* .get on a non-object raises
           /\ failed' = TRUE
           /\ Return(BetaExcept)
           /\ UNCHANGED rl
        \/ /\ study.wellformed /\ study.nctId = <<>>     \* continue
           /\ queue' = Tail(queue)
           /\ UNCHANGED <<ad, apc, n, results, ret, failed, rl>>
        \/ /\ study.wellformed /\ study.nctId # <<>> /\ ~needsDetail
           /\ results' = Append(results, rec)
           /\ rl' = Sleep(Handled(rl), RegistryDelay)
           /\ queue' = Tail(queue)
           /\ UNCHANGED <<ad, apc, n, ret, failed>>
        \/ /\ study.wellformed /\ study.nctId # <<>> /\ needsDetail
           /\ ~DetailIdValid(study.nctId)
           /\ results' = Append(results, rec)
           /\ rl' = Sleep(Handled(rl), RegistryDelay)
           /\ queue' = Tail(queue)
           /\ UNCHANGED <<ad, apc, n, ret, failed>>
        \/ /\ study.wellformed /\ study.nctId # <<>> /\ needsDetail
           /\ DetailIdValid(study.nctId)
           /\ \E resp \in DetailResponses :
                LET detail == DetailRecord(study.nctId, resp)
                IN results' = Append(results,
                     IF resp.kind = "ok" THEN Enrich(rec, detail) ELSE rec)
           /\ rl' = Sleep(Handled(Outbound(rl, RegistryDelay)), RegistryDelay)
           /\ queue' = Tail(queue)
           /\ UNCHANGED <<ad, apc, n, ret, failed>>
  /\ UNCHANGED <<envVars, pc, reviewVars>>

\* Line 213: return results.
BetaReturn ==
  /\ ad = "beta" /\ apc = "loop" /\ queue = <<>>
  /\ Return(ListRet(results))
  /\ UNCHANGED <<envVars, pc, reviewVars, rl, failed>>

\* ------------------------------------------- clinicaltrials_search_scrape

\* sub in s
Contains(s, sub) ==
  \E i \in 1..(Len(s) - Len(sub) + 1) : SubSeq(s, i, i + Len(sub) - 1) = sub

\* s.split('/')[-1]: what follows the last '/', the whole of s without one.
LastSegment(s) ==
  LET slashes == {i \in 1..Len(s) : s[i] = "/"}
  IN IF slashes = {} THEN s
     ELSE SubSeq(s, (CHOOSE i \in slashes : \A j \in slashes : j <= i) + 1, Len(s))

Digits == {"0", "1", "2", "3", "4", "5", "6", "7", "8", "9"}
NctDigits == 8

\* re.search(r'(NCT\d{8})', s): the leftmost match, <<>> for no match.
NctMatchesAt(s, i) ==
  /\ i + Len(NctPrefix) + NctDigits - 1 <= Len(s)
  /\ SubSeq(s, i, i + Len(NctPrefix) - 1) = NctPrefix
  /\ \A j \in (i + Len(NctPrefix))..(i + Len(NctPrefix) + NctDigits - 1) :
       s[j] \in Digits
NctSearch(s) ==
  LET hits == {i \in 1..Len(s) : NctMatchesAt(s, i)}
  IN IF hits = {} THEN <<>>
     ELSE LET i == CHOOSE h \in hits : \A g \in hits : h <= g
          IN SubSeq(s, i, i + Len(NctPrefix) + NctDigits - 1)

StudySeg == <<"/", "s", "t", "u", "d", "y", "/">>
ShowSeg == <<"/", "c", "t", "2", "/", "s", "h", "o", "w", "/">>

\* Lines 327-339: the identifier taken from a result link's href;
\* found is FALSE where the code says `continue`.
HrefNctId(href) ==
  IF Contains(href, StudySeg) THEN [found |-> TRUE, id |-> LastSegment(href)]
  ELSE IF Contains(href, ShowSeg) THEN [found |-> TRUE, id |-> LastSegment(href)]
  ELSE IF NctSearch(href) # <<>> THEN [found |-> TRUE, id |-> NctSearch(href)]
  ELSE [found |-> FALSE, id |-> <<>>]

\* The hrefs a result link may carry.
Hrefs ==
  { <<>>,
    StudySeg \o Nct1,
    ShowSeg \o Nct1,
    StudySeg,
    StudySeg \o Nct1 \o <<"?", "r", "a", "n", "k", "=", "1">>,
    <<"/", "t", "r", "i", "a", "l", "?", "i", "d", "=">> \o Nct1,
    <<"/", "a", "b", "o", "u", "t">> }

ScrapeResponses ==
  {[kind |-> k, links |-> <<>>] : k \in {"exception", "status"}}
  \cup {[kind |-> "ok", links |-> l] : l \in SeqUpTo(Hrefs, MaxItems)}

\* An element select_one (or the :contains scan) may find: found is FALSE
\* for None.  A Tag is truthy whatever its text.
NoElem(text) == [found |-> FALSE, text |-> text]
Elem(text) == [found |-> TRUE, text |-> text]

\* The text of the first candidate that found an element, else the default
\* (the `for selector in ...: if elem: ...; break` loops).
RECURSIVE FirstMatch(_, _)
FirstMatch(cands, default) ==
  IF cands = <<>> THEN default
  ELSE IF Head(cands).found THEN Head(cands).text
  ELSE FirstMatch(Tail(cands), default)

\* A status text is the list of its pieces around each "Status:"; lines
\* 428-432: the piece after the first "Status:" when there is one.
StatusOf(pieces) == IF Len(pieces) > 1 THEN pieces[2] ELSE pieces[1]

\* A detail page: per field the elements its three candidate selectors
\* find, in priority order.  study_type, phase and conditions stand for
\* what lines 446-524 extract; nctInText is the identifier the page text
\* holds.
BasePage ==
  [title |-> <<Elem("t1"), NoElem(""), NoElem("")>>,
   status |-> <<Elem(<<"Recruiting">>), NoElem(<<"">>), NoElem(<<"">>)>>,
   summary |-> <<Elem(Rep("u", 5)), NoElem(<<>>), NoElem(<<>>)>>,
   study_type |-> "Interventional", phase |-> "Phase 2",
   conditions |-> <<"c1">>, nctInText |-> Nct1]

DetailPages ==
  { BasePage,
    [BasePage EXCEPT !.title = <<NoElem(""), Elem("t2"), Elem("t3")>>],
    [BasePage EXCEPT !.title = <<Elem(""), Elem("t2"), NoElem("")>>],
    [BasePage EXCEPT !.title = <<NoElem(""), NoElem(""), NoElem("")>>],
    [BasePage EXCEPT !.status = <<NoElem(<<"">>), Elem(<<"Completed">>), NoElem(<<"">>)>>],
    [BasePage EXCEPT !.status = <<NoElem(<<"">>), NoElem(<<"">>),
                                  Elem(<<"Recruitment ", "Active">>)>>],
    [BasePage EXCEPT !.status = <<NoElem(<<"">>), NoElem(<<"">>), NoElem(<<"">>)>>],
    [BasePage EXCEPT !.summary = <<NoElem(<<>>), Elem(Rep("v", SnippetLen)), NoElem(<<>>)>>],
    [BasePage EXCEPT !.summary = <<Elem(Rep("u", SnippetLen + 1)), NoElem(<<>>), NoElem(<<>>)>>],
    [BasePage EXCEPT !.summary = <<NoElem(<<>>), NoElem(<<>>), NoElem(<<>>)>>] }

DetailPageResponses ==
  {[kind |-> k, page |-> BasePage] : k \in {"exception", "status"}}
  \cup {[kind |-> "ok", page |-> pg] : pg \in DetailPages}

\* Lines 378-396: the identifier of the record, from the page's url.
PageNctId(url, page) ==
  IF Contains(url, ShowSeg) THEN LastSegment(url)
  ELSE IF NctSearch(url) # <<>> THEN NctSearch(url)
  ELSE IF NctSearch(page.nctInText) # <<>> THEN NctSearch(page.nctInText)
  ELSE <<"U", "n", "k", "n", "o", "w", "n">>

\* Lines 398-536: the record extracted from a detail page.  The title text
\* t of the page becomes the title <<t, idx>>, the empty text the empty
\* title.
PageRecord(url, page, idx) ==
  LET t == FirstMatch(page.title, "Unknown Title")
      summary == FirstMatch(page.summary, <<>>)
      found == \E i \in 1..Len(page.status) : page.status[i].found
  IN [SearchResult(IF t = "" THEN <<>> ELSE <<t, idx>>) EXCEPT
        !.link = url,
        !.snippet = IF summary # <<>> /\ Len(summary) > SnippetLen
                    THEN Prefix(summary, SnippetLen) \o Ellipsis ELSE summary,
        !.abstract = summary,
        !.nct_id = PageNctId(url, page),
        !.status = IF found THEN StatusOf(FirstMatch(page.status, <<"">>))
                   ELSE "Unknown",
        !.study_type = page.study_type,
        !.phase = page.phase,
        !.conditions = page.conditions,
        !.src_summary = summary,
        !.pre = [abstract |-> summary, conditions |-> page.conditions,
                 interventions |-> NoneList],
        !.cands = [title |-> page.title, status |-> page.status,
                   summary |-> page.summary]]

\* The handler of clinicaltrials_search_scrape re-raising the exception.
ScrapeExcept_Propagate == Raised

\* `except Exception: return []` of clinicaltrials_search_scrape.
ScrapeExcept == ListRet(<<>>)

\* Lines 289-316: the search page request and the result links, cut to
\* max_results.
ScrapeEntry ==
  /\ ad = "scrape" /\ apc = "entry"
  /\ \E resp \in ScrapeResponses :
       /\ rl' = Outbound(rl, RegistryDelay)
       /\ \/ /\ resp.kind = "exception"
             /\ failed' = TRUE
             /\ Return(ScrapeExcept)
          \/ /\ resp.kind = "status"
             /\ failed' = TRUE
             /\ Return(ListRet(<<>>))
          \/ /\ resp.kind = "ok" /\ Take(resp.links, n) = <<>>
             /\ Return(ListRet(<<>>))
             /\ UNCHANGED failed
          \/ /\ resp.kind = "ok" /\ Take(resp.links, n) # <<>>
             /\ queue' = Take(resp.links, n)
             /\ apc' = "loop"
             /\ UNCHANGED <<ad, n, results, ret, failed>>
  /\ UNCHANGED <<envVars, pc, reviewVars>>

\* Lines 319-351: one turn of the loop over the result links.
ScrapeItem ==
  /\ ad = "scrape" /\ apc = "loop" /\ queue # <<>>
  /\ LET href == Head(queue)
         ext == HrefNctId(href)
         url == StudyUrl(ext.id)
     IN \/ /\ href = <<>>                                 \* continue
           /\ UNCHANGED <<results, rl>>
        \/ /\ href # <<>> /\ ~ext.found                   \* continue
           /\ UNCHANGED <<results, rl>>
        \/ /\ href # <<>> /\ ext.found
           /\ \E resp \in DetailPageResponses :
                \/ /\ resp.kind # "ok"                    \* study_info is None
                   /\ rl' = Handled(Outbound(rl, RegistryDelay))
                   /\ UNCHANGED results
                \/ /\ resp.kind = "ok"
                   /\ results' = Append(results,
                        PageRecord(url, resp.page, Len(results) + 1))
                   /\ rl' = Sleep(Handled(Outbound(rl, RegistryDelay)),
                                  RegistryDelay)
  /\ queue' = Tail(queue)
  /\ UNCHANGED <<ad, apc, n, ret, failed>>
  /\ UNCHANGED <<envVars, pc, reviewVars>>

\* Line 353: return results.
ScrapeReturn ==
  /\ ad = "scrape" /\ apc = "loop" /\ queue = <<>>
  /\ Return(ListRet(results))
  /\ UNCHANGED <<envVars, pc, reviewVars, rl, failed>>

\* ------------------------------------------------------------------ Agent

\* Agent.process: the fixed message without a chat session, else the text
\* of the response, or a diagnostic when send_message raises.
NotInitialized == "Error: Agent not properly initialized"

\* process without its `if not self.chat` guard: send_message on None
\* raises inside the try block and the handler's diagnostic is returned.
ProcessOutcomes_NoGuard(session) ==
  IF session = None THEN {"Error processing message: no session"}
  ELSE {"report text", "Error processing message: service failure"}

ProcessOutcomes(session) ==
  IF session = None THEN {NotInitialized}
  ELSE {"report text", "Error processing message: service failure"}

\* ------------------------------------------------- run_literature_review

\* result.abstract[:300] in the registry block, result.body[:500] in the
\* web block.
ContextSummaryLen == 300
ContextBodyLen == 500

Titles(rs) == [i \in 1..Len(rs) |-> rs[i].title]

\* The web block built from the first result alone.
GoogleBlock_FirstOnly(rs) ==
  [placeholder |-> rs = <<>>,
   line |-> IF rs = <<>> THEN "No Google search results found." ELSE "",
   entries |-> [i \in 1..Len(Take(rs, 1)) |->
      [title |-> rs[i].title, snippet |-> rs[i].snippet,
       content |-> Prefix(rs[i].body, ContextBodyLen) \o Ellipsis]]]

\* Lines 612-617: the web block.  A block is its placeholder line (the else
\* branch), or one entry per result.
GoogleBlock(rs) ==
  [placeholder |-> rs = <<>>,
   line |-> IF rs = <<>> THEN "No Google search results found." ELSE "",
   entries |-> [i \in 1..Len(rs) |->
      [title |-> rs[i].title, snippet |-> rs[i].snippet,
       content |-> Prefix(rs[i].body, ContextBodyLen) \o Ellipsis]]]

\* Lines 622-632: the preprint block.
ArxivBlock(rs) ==
  [placeholder |-> rs = <<>>,
   line |-> IF rs = <<>> THEN "No Arxiv papers found." ELSE "",
   entries |-> [i \in 1..Len(rs) |->
      [title |-> rs[i].title,
       authors |-> JoinComma(IF Falsy(rs[i].authors) THEN <<>> ELSE rs[i].authors),
       published |-> rs[i].published, abstract |-> rs[i].abstract,
       url |-> rs[i].arxiv_url]]]

\* The registry block without its else branch.
ClinicalBlock_NoElse(rs) ==
  [placeholder |-> FALSE,
   line |-> "",
   entries |-> [i \in 1..Len(rs) |->
      [title |-> rs[i].title, nct_id |-> rs[i].nct_id,
       status |-> rs[i].status, study_type |-> rs[i].study_type,
       phase |-> rs[i].phase,
       conditions |-> IF Falsy(rs[i].conditions) THEN "Not specified"
                      ELSE JoinComma(rs[i].conditions),
       summary |-> Prefix(rs[i].abstract, ContextSummaryLen) \o Ellipsis,
       url |-> rs[i].link, src_abstract |-> rs[i].abstract]]]

\* Lines 642-655: the registry block; src_abstract keeps the abstract the
\* summary line was cut from.
ClinicalBlock(rs) ==
  [placeholder |-> rs = <<>>,
   line |-> IF rs = <<>> THEN "No clinical trials found." ELSE "",
   entries |-> [i \in 1..Len(rs) |->
      [title |-> rs[i].title, nct_id |-> rs[i].nct_id,
       status |-> rs[i].status, study_type |-> rs[i].study_type,
       phase |-> rs[i].phase,
       conditions |-> IF Falsy(rs[i].conditions) THEN "Not specified"
                      ELSE JoinComma(rs[i].conditions),
       summary |-> Prefix(rs[i].abstract, ContextSummaryLen) \o Ellipsis,
       url |-> rs[i].link, src_abstract |-> rs[i].abstract]]]

NoBlock == [placeholder |-> FALSE, line |-> "", entries |-> <<>>]

\* Lines 659-683: the prompt, its three blocks in order and the closing
\* instruction about sources without results.
ReportPrompt(g, a, c) ==
  [blocks |-> <<g, a, c>>,
   instruction |-> "If no results were found in a particular source, please mention that in your review."]

\* The fallback taken whatever Tier 1 returned.
NeedFallback_Always(rs) == TRUE

\* `if not clinical_trials_results:` (line 638)
NeedFallback(rs) == rs = <<>>

\* The caller going on without waiting for the adapter call to return.
AdapterReturned_NoWait == TRUE

\* The call of an adapter is synchronous: the caller goes on when it has
\* returned.
AdapterReturned == apc = "ret"

Adapters == {"google", "arxiv", "beta", "scrape"}

Init ==
  /\ api_key \in EnvValues
  /\ search_engine_id \in EnvValues
  /\ chat = None
  /\ pc = "init"
  /\ ad = "none" /\ apc = "idle" /\ n = DefaultN
  /\ queue = <<>> /\ results = <<>> /\ ret = NoRet /\ failed = FALSE
  /\ rl = NewFetch
  /\ stageLog = <<>> /\ tier1 = NoneList /\ tier2Calls = 0
  /\ handed = [web |-> <<>>, preprint |-> <<>>, registry |-> <<>>]
  /\ overlap = FALSE
  /\ google_context = NoBlock /\ arxiv_context = NoBlock
  /\ clinical_trials_context = NoBlock
  /\ processCalls = 0 /\ prompt = None /\ composerOut = None /\ report = None

adapterVars == <<ad, apc, n, queue, results, ret, failed, rl>>

\* MultiAgentSystem.__init__ (lines 598-603) with Agent.__init__ (lines
\* 567-579): ValueError without GOOGLE_API_KEY; a failure of the genai
\* set-up leaves the agent without a chat session.
Construct ==
  /\ pc = "init"
  /\ \/ /\ Missing(api_key)
        /\ pc' = "ctor_raised"
        /\ UNCHANGED chat
     \/ /\ ~Missing(api_key)
        /\ pc' = "ready"
        /\ chat' \in {"session", None}
  /\ UNCHANGED <<api_key, search_engine_id, adapterVars, reviewVars>>

\* A caller of one SearchTool method on a SearchTool of its own
\* (test_search, lines 710-732).
DirectCall ==
  /\ pc = "init"
  /\ \E a \in Adapters, k \in 1..MaxN : Invoke(a, k)
  /\ pc' = "direct"
  /\ UNCHANGED <<envVars, reviewVars>>

\* app.py run_async_operations, lines 55-62: the quick search.
QuickSearch ==
  /\ pc = "ready"
  /\ \E k \in 1..MaxN : Invoke("arxiv", k)
  /\ pc' = "direct"
  /\ UNCHANGED <<envVars, reviewVars>>

\* The direct caller has its list (lines 716, 727; app.py line 62).
DirectReturn ==
  /\ pc = "direct" /\ AdapterReturned /\ ret.kind # "raised"
  /\ Release
  /\ pc' = "direct_done"
  /\ UNCHANGED <<envVars, reviewVars>>

\* A stage starts: its name is logged, and whether the adapter call of
\* the stage before is still running.
StartStage(name) ==
  /\ stageLog' = Append(stageLog, name)
  /\ overlap' = (overlap \/ apc \in {"entry", "loop"})

\* Lines 609-611: the review starts with the web search.
StartReview ==
  /\ pc = "ready"
  /\ StartStage("web")
  /\ Invoke("google", DefaultN)
  /\ pc' = "web"
  /\ UNCHANGED <<envVars, tier1, tier2Calls, handed, google_context,
                 arxiv_context, clinical_trials_context, processCalls,
                 prompt, composerOut, report>>

\* Lines 612-621: the web block, then the preprint search.
WebDone ==
  /\ pc = "web" /\ AdapterReturned /\ ret.kind # "raised"
  /\ google_context' = GoogleBlock(ret.val)
  /\ handed' = [handed EXCEPT !.web = Titles(ret.val)]
  /\ StartStage("preprint")
  /\ Invoke("arxiv", DefaultN)
  /\ pc' = "preprint"
  /\ UNCHANGED <<envVars, tier1, tier2Calls, arxiv_context,
                 clinical_trials_context, processCalls, prompt, composerOut,
                 report>>

\* Lines 622-637: the preprint block, then Tier 1 of the registry search.
PreprintDone ==
  /\ pc = "preprint" /\ AdapterReturned /\ ret.kind # "raised"
  /\ arxiv_context' = ArxivBlock(ret.val)
  /\ handed' = [handed EXCEPT !.preprint = Titles(ret.val)]
  /\ StartStage("registry")
  /\ Invoke("beta", DefaultN)
  /\ pc' = "tier1"
  /\ UNCHANGED <<envVars, tier1, tier2Calls, google_context,
                 clinical_trials_context, processCalls, prompt, composerOut,
                 report>>

\* Lines 638-655: Tier 1 has returned; the fallback to Tier 2, or the
\* registry block.
Tier1Done ==
  /\ pc = "tier1" /\ AdapterReturned /\ ret.kind # "raised"
  /\ tier1' = ret.val
  /\ \/ /\ NeedFallback(ret.val)
        /\ tier2Calls' = tier2Calls + 1
        /\ Invoke("scrape", DefaultN)
        /\ pc' = "tier2"
        /\ UNCHANGED <<handed, clinical_trials_context>>
     \/ /\ ~NeedFallback(ret.val)
        /\ clinical_trials_context' = ClinicalBlock(ret.val)
        /\ handed' = [handed EXCEPT !.registry = Titles(ret.val)]
        /\ pc' = "compose"
        /\ Release
        /\ UNCHANGED tier2Calls
  /\ UNCHANGED <<envVars, stageLog, overlap, google_context, arxiv_context,
                 processCalls, prompt, composerOut, report>>

\* Lines 642-655 after the fallback: the registry block from Tier 2.
Tier2Done ==
  /\ pc = "tier2" /\ AdapterReturned /\ ret.kind # "raised"
  /\ clinical_trials_context' = ClinicalBlock(ret.val)
  /\ handed' = [handed EXCEPT !.registry = Titles(ret.val)]
  /\ pc' = "compose"
  /\ Release
  /\ UNCHANGED <<envVars, stageLog, overlap, tier1, tier2Calls,
                 google_context, arxiv_context, processCalls, prompt,
                 composerOut, report>>

\* Lines 657-686: the prompt, the one call of report_agent.process, and
\* the return of its text.
Compose ==
  /\ pc = "compose"
  /\ StartStage("compose")
  /\ prompt' = ReportPrompt(google_context, arxiv_context, clinical_trials_context)
  /\ processCalls' = processCalls + 1
  /\ \E out \in ProcessOutcomes(chat) :
       /\ composerOut' = out
       /\ report' = out
  /\ pc' = "done"
  /\ UNCHANGED <<envVars, adapterVars, tier1, tier2Calls, handed,
                 google_context, arxiv_context, clinical_trials_context>>

Next ==
  \/ Construct \/ DirectCall \/ QuickSearch \/ DirectReturn
  \/ StartReview \/ WebDone \/ PreprintDone \/ Tier1Done \/ Tier2Done
  \/ Compose
  \/ GoogleEntry \/ GoogleItem \/ GoogleReturn
  \/ ArxivEntry \/ ArxivItem \/ ArxivReturn
  \/ BetaEntry \/ BetaItem \/ BetaReturn
  \/ ScrapeEntry \/ ScrapeItem \/ ScrapeReturn

Spec == Init /\ [][Next]_vars

\* ------------------------------------------------------------- properties

InReview == pc \in {"web", "preprint", "tier1", "tier2", "compose", "done"}
Running == apc \in {"entry", "loop"}
RegistryRecords == IF ad \in {"beta", "scrape"} THEN results ELSE <<>>

\* The per-item delay of an adapter (lines 79, 112, 211, 351).
DelayOf(a) ==
  IF a = "google" THEN GoogleDelay
  ELSE IF a = "arxiv" THEN ArxivDelay ELSE RegistryDelay

\* C1: in a run of run_literature_review, Tier 2 is called exactly once
\* when Tier 1 returned an empty list and never when Tier 1 returned one
\* or more records.
C1_FallbackExactlyOnce ==
  /\ tier2Calls <= 1
  /\ tier2Calls = 1 => tier1 = <<>>
  /\ (pc \in {"tier2", "compose", "done"} /\ tier1 = <<>>) => tier2Calls = 1
  /\ (pc \in {"compose", "done"} /\ tier1 # <<>>)
        => (tier2Calls = 0 /\ Len(tier1) >= 1)
  /\ (ad = "scrape" /\ InReview) => tier2Calls = 1

C1_Witness ==
  pc = "done" /\ tier1 = <<>> /\ tier2Calls = 1 /\ ad = "scrape"
  /\ Len(handed.registry) >= 1

\* C2: the list an adapter returns for fetch(q, n) has at most n elements,
\* whatever number of items the remote response holds.
C2_AtMostN ==
  (apc = "ret" /\ ret.kind = "list") => Len(ret.val) <= n

\* C3: no adapter call raises to its caller: it returns a list, and the
\* empty list when a network, status or parse failure reached its handler.
C3_NeverRaises ==
  /\ ret.kind # "raised"
  /\ apc = "ret" => ret.kind = "list"
  /\ (apc = "ret" /\ failed) => ret.val = <<>>

C3_Witness ==
  /\ ad = "beta" /\ apc = "ret" /\ failed /\ ret = ListRet(<<>>)
  /\ Len(results) >= 1 /\ pc = "tier1"

\* C4: with the search API key or the search-engine id absent,
\* google_search returns the empty list and makes no outbound call.
C4_NoCallWithoutCredentials ==
  (ad = "google" /\ (Missing(api_key) \/ Missing(search_engine_id)))
     => /\ rl.calls = 0
        /\ apc = "ret" => ret = ListRet(<<>>)
        /\ apc # "loop"

C4_Witness ==
  /\ ad = "google" /\ apc = "ret" /\ ret = ListRet(<<>>) /\ rl.calls = 0
  /\ ~Missing(api_key) /\ Missing(search_engine_id)

\* C5: the stages of a review run in the order web, preprint, registry,
\* compose; a stage starts only when the adapter call of the stage before
\* has returned, and the one adapter call in progress is that of the
\* current stage.
StageOrder == <<"web", "preprint", "registry", "compose">>
StageAdapters(stage) ==
  IF stage = "web" THEN {"google"}
  ELSE IF stage = "preprint" THEN {"arxiv"}
  ELSE IF stage = "registry" THEN {"beta", "scrape"} ELSE {}
C5_Sequential ==
  /\ Len(stageLog) <= Len(StageOrder)
  /\ stageLog = SubSeq(StageOrder, 1, Len(stageLog))
  /\ ~overlap
  /\ (InReview /\ Running) => ad \in StageAdapters(stageLog[Len(stageLog)])
  /\ (InReview /\ pc # "done") => Len(stageLog) < Len(StageOrder)
  /\ pc = "done" => (stageLog = StageOrder /\ ~Running)

C5_Witness == pc = "done" /\ stageLog = StageOrder /\ tier2Calls = 1

\* C6: a review calls the composer's process exactly once, with a prompt
\* that holds the title of every record the web, preprint and registry
\* stages handed over, and returns the composer's text as it is.
BlockTitles(block) == {block.entries[i].title : i \in 1..Len(block.entries)}
HandedIn(titles, block) ==
  \A i \in 1..Len(titles) : titles[i] \in BlockTitles(block)
C6_ComposeOnce ==
  /\ processCalls <= 1
  /\ pc = "done" =>
       /\ processCalls = 1
       /\ report = composerOut
       /\ report \in ProcessOutcomes(chat)
       /\ HandedIn(handed.web, prompt.blocks[1])
       /\ HandedIn(handed.preprint, prompt.blocks[2])
       /\ HandedIn(handed.registry, prompt.blocks[3])
  /\ (InReview /\ pc # "done") => processCalls = 0

C6_Witness ==
  /\ pc = "done" /\ processCalls = 1 /\ report = "report text"
  /\ Len(handed.web) = 2 /\ Len(handed.preprint) = 2 /\ Len(handed.registry) = 2
  /\ tier2Calls = 1

\* C7: the Tier-1 enrichment overwrites no populated field: each of
\* abstract, conditions and interventions that was non-empty before the
\* detail fetch has the same value after it.
C7_EnrichKeepsPopulated ==
  \A i \in 1..Len(RegistryRecords) :
    LET r == RegistryRecords[i]
    IN r.enriched =>
         /\ r.pre.abstract # <<>> => r.abstract = r.pre.abstract
         /\ ~Falsy(r.pre.conditions) => r.conditions = r.pre.conditions
         /\ ~Falsy(r.pre.interventions) => r.interventions = r.pre.interventions

\* C8: for a registry record, a source summary longer than 200 characters
\* gives a snippet of at most 203 characters, and a source summary of at
\* most 200 characters (the empty one included) gives a snippet equal to
\* the abstract.
C8_SnippetOfSummary ==
  \A i \in 1..Len(RegistryRecords) :
    LET r == RegistryRecords[i]
    IN /\ Len(r.src_summary) > SnippetLen
            => Len(r.snippet) <= SnippetLen + Len(Ellipsis)
       /\ Len(r.src_summary) <= SnippetLen => r.snippet = r.abstract

\* C9: within one fetch, every outbound call after the first comes after
\* a sleep of at least the adapter's delay since the call before it.
C9_EveryCallDelayed == ~rl.undelayed

\* C10: a fetch that handled k items has slept at least (k-1) times the
\* adapter's per-item delay when it returns.
C10_CumulativeDelay ==
  (apc = "ret" /\ rl.processed >= 1)
     => rl.slept >= (rl.processed - 1) * DelayOf(ad)

\* C11: every registry record has an nct_id that is empty or is "NCT"
\* followed by exactly eight digits, whatever the study payload of Tier 1
\* and whatever the href of a Tier-2 result link.
NctPattern(id) == Len(id) = Len(NctPrefix) + NctDigits /\ NctMatchesAt(id, 1)
C11_NctIdPattern ==
  \A i \in 1..Len(RegistryRecords) :
    LET r == RegistryRecords[i]
    IN r.nct_id # <<>> => NctPattern(r.nct_id)

\* C12 as stated: process always returns a text (the fixed message when
\* the agent has no chat session, a diagnostic when the service fails), and
\* the construction succeeds whatever the credential, a missing
\* generative-service credential included.
C12_ConstructionAlwaysSucceeds ==
  /\ processCalls >= 1 =>
       /\ composerOut \in ProcessOutcomes("session") \cup {NotInitialized}
       /\ chat = None => composerOut = NotInitialized
  /\ pc # "ctor_raised"

\* C12, amended: process never raises: it returns the fixed message when
\* the agent has no chat session and the response text or a diagnostic
\* otherwise.  The construction succeeds without a session when the
\* generative-service set-up fails, but with the credential missing it
\* raises, and then no review runs and process is never called.
C12_FailSoft ==
  /\ processCalls >= 1 =>
       /\ composerOut \in ProcessOutcomes("session") \cup {NotInitialized}
       /\ chat = None => composerOut = NotInitialized
       /\ chat # None => composerOut # NotInitialized
  /\ pc = "ctor_raised" => (Missing(api_key) /\ processCalls = 0 /\ chat = None)
  /\ (InReview \/ pc = "ready") => ~Missing(api_key)
  /\ Missing(api_key) => pc \in {"init", "direct", "direct_done", "ctor_raised"}

C12_Witness ==
  /\ pc = "done" /\ chat = None /\ ~Missing(api_key)
  /\ processCalls = 1 /\ report = NotInitialized

\* The text of the first candidate that found an element with a text
\* other than `empty`, else the default.
RECURSIVE FirstNonEmpty(_, _, _)
FirstNonEmpty(cands, empty, default) ==
  IF cands = <<>> THEN default
  ELSE IF Head(cands).found /\ Head(cands).text # empty THEN Head(cands).text
  ELSE FirstNonEmpty(Tail(cands), empty, default)

\* C13: in a Tier-2 record, title, status and summary each hold the text
\* of the first candidate selector, in priority order, that finds an
\* element with a non-empty text (an element with an empty text is passed
\* over), and the default when no candidate does: "Unknown" for title and
\* status, the empty string for the summary.
C13_FirstNonEmptyCandidate ==
  ad = "scrape" =>
    \A i \in 1..Len(results) :
      LET r == results[i]
      IN /\ r.title = <<FirstNonEmpty(r.cands.title, "", "Unknown"), i>>
         /\ r.status =
              StatusOf(FirstNonEmpty(r.cands.status, <<"">>, <<"Unknown">>))
         /\ r.abstract = FirstNonEmpty(r.cands.summary, <<>>, <<>>)

\* C14: every record an adapter returns has a non-empty title: a Tier-1
\* study without brief and official title and a Tier-2 page on which no
\* title selector yields a text give no record.
C14_TitleNonEmpty ==
  (apc = "ret" /\ ret.kind = "list")
     => \A i \in 1..Len(ret.val) :
          /\ ret.val[i].title # <<>>
          /\ ad = "scrape" =>
               FirstNonEmpty(ret.val[i].cands.title, "", "") # ""

\* C15: in the prompt a review submits, the block of a source is its
\* "no results" placeholder line exactly when the final result list of the
\* source is empty (for the registry: Tier 1 and Tier 2 both returned the
\* empty list), and a placeholder block states in the prompt that nothing
\* was found in that source.
PlaceholderLines ==
  <<"No Google search results found.", "No Arxiv papers found.",
    "No clinical trials found.">>
FinalLists == <<handed.web, handed.preprint, handed.registry>>
C15_PlaceholderIffEmpty ==
  pc = "done" =>
    /\ prompt.blocks = <<google_context, arxiv_context, clinical_trials_context>>
    /\ \A s \in 1..3 :
         LET block == prompt.blocks[s]
         IN /\ block.placeholder <=> FinalLists[s] = <<>>
            /\ block.placeholder
                 => (block.line = PlaceholderLines[s] /\ block.entries = <<>>)
            /\ ~block.placeholder
                 => (block.line = "" /\ Len(block.entries) = Len(FinalLists[s]))
    /\ prompt.blocks[3].placeholder <=> (tier1 = <<>> /\ tier2Calls = 1
                                         /\ handed.registry = <<>>)

C15_Witness ==
  /\ pc = "done" /\ tier1 = <<>> /\ tier2Calls = 1
  /\ \A s \in 1..3 : prompt.blocks[s].placeholder
  /\ prompt.blocks[3].line = "No clinical trials found."

\* C16: in the registry block, the summary of a record is the first 300
\* characters of its abstract followed by an ellipsis when the abstract is
\* longer than 300 characters, and the abstract itself, without an
\* ellipsis, when it has 300 characters or fewer.
C16_SummaryCut ==
  \A i \in 1..Len(clinical_trials_context.entries) :
    LET e == clinical_trials_context.entries[i]
    IN IF Len(e.src_abstract) > ContextSummaryLen
       THEN e.summary = Prefix(e.src_abstract, ContextSummaryLen) \o Ellipsis
       ELSE e.summary = e.src_abstract

\* C17: a remote item with an absent field (a web item without title,
\* link or snippet, a registry study without one of its modules) aborts
\* neither its record nor the fetch: the turn of the loop that visits it
\* keeps the records built so far and goes on with the remaining items,
\* and each item of the web response gives a record.
AbsentFieldOnly ==
  \/ ad = "google"
  \/ ad = "beta" /\ Head(queue).wellformed
C17_ItemFailureKeepsFetch ==
  [][(apc = "loop" /\ queue # <<>> /\ AbsentFieldOnly)
       => /\ apc' = "loop" /\ queue' = Tail(queue) /\ ~failed'
          /\ Len(results') >= Len(results)
          /\ SubSeq(results', 1, Len(results)) = results
          /\ ad = "google" => Len(results') = Len(results) + 1]_vars

\* C18: in the Tier-2 loop the identifier of a result link is taken from
\* the href by the /study/ segment, else the /ct2/show/ segment, else the
\* NCT-plus-8-digits match, and the detail page requested is the one of
\* that identifier; a link that gives no identifier (an empty one after
\* /study/ or /ct2/show/ included) is skipped: no outbound call is made
\* for it and no record is built.
C18_NoIdNoFetch ==
  [][(ad = "scrape" /\ apc = "loop" /\ queue # <<>>)
       => LET ext == HrefNctId(Head(queue))
          IN /\ (~ext.found \/ ext.id = <<>>)
                  => (rl'.calls = rl.calls /\ results' = results)
             /\ Len(results') > Len(results)
                  => results'[Len(results')].link = StudyUrl(ext.id)]_vars

\* Every outbound call returns or fails and the program goes on running:
\* a step that can be taken is eventually taken.
LiveSpec == Spec /\ WF_vars(Next)

\* C19: a fetch makes at most one list call plus one call per item of the
\* response, a review calls Tier 2 at most once, and every review that
\* has started reaches the compose step and returns the composer's text,
\* also when the three sources gave nothing.
CallsBounded ==
  /\ rl.calls <= 1 + rl.processed
  /\ rl.processed <= MaxItems
  /\ tier2Calls <= 1
ReviewReturned ==
  pc = "done" /\ processCalls = 1 /\ report \in ProcessOutcomes(chat)
C19_ReviewTerminates ==
  /\ []CallsBounded
  /\ (pc = "web") ~> ReviewReturned

C19_Witness ==
  /\ ReviewReturned /\ tier1 = <<>> /\ tier2Calls = 1
  /\ handed.web = <<>> /\ handed.preprint = <<>> /\ handed.registry = <<>>

====
